---- MODULE Spec2Model ----
(***************************************************************************)
(* A model of the Launchpad arpeggiator (src/src/bin/lparp.rs): the tick   *)
(* scheduler, the controller state machine driven by MIDI input events,    *)
(* and the LED / note messages it writes to its two devices.               *)
(***************************************************************************)
EXTENDS Integers, Sequences, FiniteSets, TLC

VARIABLES
    arp,         \* the fields of struct Arp that the handlers read and write
    scheduler,   \* struct Scheduler: tick_duration, jobs, queue
    pc,          \* position of main / Arp::run
    qi,          \* the index i of the drain loop in Arp::update
    out,         \* the device writes attempted by the most recent step
    rd,          \* the result of the read_n made by the most recent step
    dispatched,  \* the input events the most recent step handed to a dispatch
    order,       \* the payloads the current drain has taken from the queue
    pushed,      \* every payload Scheduler::update has appended to the queue
    late,        \* whether the most recent tick found elapsed > tick_duration
    rate,        \* the arguments of the most recent Scheduler::set_rate call
    nticks       \* number of Scheduler::update calls made so far

vars == <<arp, scheduler, pc, qi, out, rd, dispatched, order, pushed, late, rate,
          nticks>>

----------------------------------------------------------------------------
\* Bounds of the model.

\* Scheduler::update is called at most MaxTicks times in a run of main.
MaxTicks == 33
\* Under an arbitrary registration: at most MaxJobs jobs, of period at most
\* MaxPeriod, and at most SchedTicks calls of Scheduler::update.
MaxJobs == 3
MaxPeriod == 2
SchedTicks == 4
\* Under an arbitrary rate: at most RateTicks calls of Scheduler::update.
RateTicks == 5
\* A read_n returns one event, or a burst of at most MaxBurst events.
MaxBurst == 3
\* A transport fault is injected at the MaxFailAt-th write of a step at the latest.
MaxFailAt == 2
\* A tick is at most MaxLate microseconds late.
MaxLate == 1
\* With a device that sends any id: at most GridTicks calls of Scheduler::update.
GridTicks == 5
\* Long runs of main: at most SweepTicks calls of Scheduler::update, enough
\* for 33 UpdateState payloads (one every 32 ticks), so that the playhead
\* goes once around its 32 columns.
SweepTicks == 1056
\* With a device that sends grid and page presses: at most PatternTicks calls
\* of Scheduler::update (four CheckInputs payloads, one every 4 ticks).
PatternTicks == 17

----------------------------------------------------------------------------
\* Constants of the program.

MIDI == 176
NOTE == 144
PAGE_BASE == 104
TRACKER_FIRST == 112
TRACKER_WRAP == 120
NCOLS == 32
MINUTE_US == 60000000
I32_MAX == 2147483647

MAJOR_SCALE == <<0, 2, 4, 5, 7, 9, 11>>
MINOR_SCALE == <<0, 2, 3, 5, 7, 8, 10>>

Msg == {"CheckInputs", "UpdateState", "FlushNotes", "Quit"}

None == [some |-> FALSE]

----------------------------------------------------------------------------
\* Pure functions.

\* A scale lookup that takes degree 7 as well.
ScaleIndex_Inclusive(note) ==
    IF note >= 1 /\ note <= 7 THEN [some |-> TRUE, i |-> note] ELSE None

\* The arms of calc_note: the pattern 1..7 excludes 7, and the table index
\* is the degree itself (`note as usize`, 0-based).
ScaleIndex(note) ==
    IF note >= 1 /\ note < 7 THEN [some |-> TRUE, i |-> note] ELSE None

\* calc_note: the 0-based index i is place i + 1 of a sequence; an index
\* outside the 7 entries of the table is a panic (oob).
calc_note(note, scale) ==
    LET k == ScaleIndex(note)
        table == IF scale = "Major" THEN MAJOR_SCALE ELSE MINOR_SCALE
    IN  IF ~k.some THEN None
        ELSE IF k.i \in 0..6
        THEN [some |-> TRUE, oob |-> FALSE, v |-> table[k.i + 1]]
        ELSE [some |-> TRUE, oob |-> TRUE, v |-> 0]

\* A decode that lets column 9 through.
find_lp_xy_Nine(x) ==
    LET nx == IF x >= 16 THEN x % 16 ELSE x
    IN  IF nx <= 9 THEN [some |-> TRUE, x |-> nx, y |-> x \div 16] ELSE None

\* find_lp_xy, for any u8.
find_lp_xy(x) ==
    LET nx == IF x >= 16 THEN x % 16 ELSE x
    IN  IF nx < 9 THEN [some |-> TRUE, x |-> nx, y |-> x \div 16] ELSE None

\* The value of a u8 expression whose mathematical value is v: outside 0..255
\* a build with overflow checks (debug) panics, one without wraps.
U8(v, debug) ==
    IF v \in 0..255 THEN [ok |-> TRUE, v |-> v]
    ELSE IF debug THEN [ok |-> FALSE, v |-> 0]
    ELSE [ok |-> TRUE, v |-> v % 256]

\* led_color: 12 | red | (16 * green). For levels 0..3 the three operands
\* occupy disjoint bits (2-3, 0-1, 4-5), so the bitwise or is their sum.
led_color(red, green) ==
    IF red \in 0..3 /\ green \in 0..3 THEN 12 + red + (16 * green) ELSE 127

----------------------------------------------------------------------------
\* 32-bit arithmetic of Scheduler::set_rate.

Abs(a) == IF a < 0 THEN -a ELSE a

\* (x * y) mod 2^16 for x, y in 0..65535, without leaving 32 bits.
MulMod16(x, y) ==
    (((x % 256) * y) + 256 * (((x \div 256) * y) % 256)) % 65536

\* a * b in wrapping i32 arithmetic, computed on 16-bit halves.
WrapMul32(a, b) ==
    LET la == a % 65536
        ha == (a \div 65536) % 65536
        lb == b % 65536
        hb == (b \div 65536) % 65536
        t0 == (la % 256) * lb
        t1 == (la \div 256) * lb
        s  == t0 + 256 * (t1 % 256)
        lo == s % 65536
        cy == (s \div 65536) + (t1 \div 256)
        hi == (cy + MulMod16(ha, lb) + MulMod16(la, hb)) % 65536
    IN  IF hi >= 32768 THEN ((hi - 65536) * 65536) + lo
                       ELSE (hi * 65536) + lo

\* Whether a * b leaves the i32 range (a, b above the minimum i32).
MulOverflows32(a, b) ==
    IF a = 0 \/ b = 0 THEN FALSE
    ELSE LET m  == Abs(a)
             n  == Abs(b)
             q  == I32_MAX \div n
             negative == (a < 0) # (b < 0)
         IN  IF m <= q THEN FALSE
             ELSE ~(negative /\ I32_MAX % n = n - 1 /\ m = q + 1)

----------------------------------------------------------------------------
\* Scheduler.

\* A Duration in microseconds; max stands for u64::MAX microseconds, the value
\* an infinite f64 saturates to when cast to u64.
Micros(n) == [max |-> FALSE, micros |-> n]
DurationMax == [max |-> TRUE, micros |-> 0]

\* Scheduler::new. last_time is the number of the tick that recorded it.
SchedulerNew ==
    [tick_duration |-> Micros(0), last_time |-> 0, jobs |-> <<>>, queue |-> <<>>]

has_events(s) == Len(s.queue) > 0

\* A clear_queue that leaves the queue as it is.
clear_queue_Keep(s) == s

clear_queue(s) == [s EXCEPT !.queue = <<>>]

interval(s, tick_amt, msg) ==
    [s EXCEPT !.jobs = Append(@, [ct |-> 0, mt |-> tick_amt, msg |-> msg])]

\* Scheduler::set_rate. bpm * num_ticks is an i32 product: on overflow a build
\* with overflow checks (debug) panics, one without wraps. 60000000.0 / x as
\* u64 is 0 for a negative quotient, u64::MAX for x = 0 and the floor otherwise.
set_rate(s, bpm, num_ticks, debug) ==
    IF debug /\ MulOverflows32(bpm, num_ticks)
    THEN [st |-> "panic", s |-> s]
    ELSE LET x  == WrapMul32(bpm, num_ticks)
             td == IF x = 0 THEN DurationMax
                   ELSE IF x < 0 THEN Micros(0)
                   ELSE Micros(MINUTE_US \div x)
         IN  [st |-> "ok", s |-> [s EXCEPT !.tick_duration = td]]

\* A job loop that does not reset the counter of a job that comes due.
RECURSIVE JobLoop_NoReset(_, _)
JobLoop_NoReset(s, k) ==
    IF k > Len(s.jobs) THEN s
    ELSE LET ct == s.jobs[k].ct + 1
         IN  IF ct = s.jobs[k].mt
             THEN JobLoop_NoReset([s EXCEPT !.jobs[k].ct = ct,
                                            !.queue = Append(@, s.jobs[k].msg)],
                                  k + 1)
             ELSE JobLoop_NoReset([s EXCEPT !.jobs[k].ct = ct], k + 1)

\* A job loop that puts a due payload at the front of the queue.
RECURSIVE JobLoop_Front(_, _)
JobLoop_Front(s, k) ==
    IF k > Len(s.jobs) THEN s
    ELSE LET ct == s.jobs[k].ct + 1
         IN  IF ct = s.jobs[k].mt
             THEN JobLoop_Front([s EXCEPT !.jobs[k].ct = 0,
                                          !.queue = <<s.jobs[k].msg>> \o @],
                                k + 1)
             ELSE JobLoop_Front([s EXCEPT !.jobs[k].ct = ct], k + 1)

\* The job loop of Scheduler::update, from job k on.
RECURSIVE JobLoop(_, _)
JobLoop(s, k) ==
    IF k > Len(s.jobs) THEN s
    ELSE LET ct == s.jobs[k].ct + 1
         IN  IF ct = s.jobs[k].mt
             THEN JobLoop([s EXCEPT !.jobs[k].ct = 0,
                                    !.queue = Append(@, s.jobs[k].msg)], k + 1)
             ELSE JobLoop([s EXCEPT !.jobs[k].ct = ct], k + 1)

\* Scheduler::update, called as tick number n with `elapsed` microseconds on
\* the clock since last_time. tick_duration - elapsed panics when elapsed is
\* the larger; a sleep of u64::MAX microseconds does not return.
SchedulerUpdate(s, elapsed, n) ==
    LET s1 == JobLoop(s, 1)
    IN  IF s1.tick_duration.max THEN [st |-> "asleep", s |-> s1]
        ELSE IF elapsed > s1.tick_duration.micros THEN [st |-> "panic", s |-> s1]
        ELSE [st |-> "ok", s |-> [s1 EXCEPT !.last_time = n]]

\* The clock readings tried for a tick.
ElapsedInputs(s) ==
    IF s.tick_duration.max THEN {0}
    ELSE {0, s.tick_duration.micros}
         \cup {s.tick_duration.micros + d : d \in 1..MaxLate}

----------------------------------------------------------------------------
\* Controller. A handler is an operator on a machine record m:
\*   m.arp   the Arp fields,
\*   m.out   the writes attempted so far in this step, each with its result,
\*   m.disp  the input events handed to the status dispatch so far,
\*   m.st    "ok", "fault" once a `?` has returned an Err to the caller, or
\*           "panic" once an arithmetic or index check has failed,
\*   m.debug whether the build checks arithmetic overflow.
\* Every statement of a handler is skipped once m.st is not "ok".

\* Tracker::new
TrackerNew == [index |-> 0, btn |-> <<NOTE, TRACKER_FIRST, 127, 0>>]

\* ArpCol::new
ArpColNew == [val |-> 0, note |-> 0]

\* Arp::new (bpm is never read and is left out).
ArpNew ==
    [running     |-> TRUE,
     playing     |-> FALSE,
     index       |-> 0,
     buffer_index |-> 0,
     buffer      |-> [c \in 0..(NCOLS - 1) |-> ArpColNew],
     buffer_btn  |-> <<MIDI, PAGE_BASE, 127, 0>>,
     pp_btn      |-> <<MIDI, 108, led_color(3, 0), 0>>,
     scale       |-> "Major",
     scale_btn   |-> <<MIDI, 110, led_color(1, 3), 0>>,
     octave      |-> 5,
     octave_btn  |-> <<NOTE, 72, 127, 0>>,
     tracker     |-> TrackerNew]

\* A transport fault plan F: write number F.at of the step fails (none when
\* F.at = 0), and so does every later one when F.sticky.
WriteFails(n, F) == F.at # 0 /\ (n = F.at \/ (F.sticky /\ n > F.at))

\* A failed overflow or bounds check.
Panic(m) == IF m.st = "ok" THEN [m EXCEPT !.st = "panic"] ELSE m

\* A state change made between two writes.
Set(m, a) == IF m.st = "ok" THEN [m EXCEPT !.arp = a] ELSE m

\* output.write_message(msg)? on a port: an Err is returned to the caller.
WriteQ(m, port, msg, F) ==
    IF m.st # "ok" THEN m
    ELSE LET ok == ~WriteFails(Len(m.out) + 1, F)
         IN  [m EXCEPT !.out = Append(@, [port |-> port, msg |-> msg, ok |-> ok]),
                       !.st  = IF ok THEN "ok" ELSE "fault"]

\* Device::write: the bool it returns is what write_message(...).is_ok() gave.
DeviceWrite(m, port, msg, F) ==
    IF m.st # "ok" THEN m
    ELSE LET ok == ~WriteFails(Len(m.out) + 1, F)
         IN  [m EXCEPT !.out = Append(@, [port |-> port, msg |-> msg, ok |-> ok])]

\* Tracker::in_range
in_range(t, buffer_index) ==
    LET bmin == buffer_index * 8
    IN  (bmin <= t.index) /\ (t.index <= (bmin + 7))

\* Tracker::update
tracker_update(t) ==
    LET i == t.index + 1
    IN  [t EXCEPT !.index = IF i = NCOLS THEN 0 ELSE i]

\* A move_right that does not come back to the first LED of the row.
move_right_NoWrap(t) == [t EXCEPT !.btn[2] = @ + 1]

\* Tracker::move_right
move_right(t) ==
    LET b == t.btn[2] + 1
    IN  [t EXCEPT !.btn[2] = IF b = TRACKER_WRAP THEN TRACKER_FIRST ELSE b]

\* Arp::quit
quit(m) == Set(m, [m.arp EXCEPT !.running = FALSE])

\* Arp::clear_board
clear_board(m, F) == WriteQ(m, "grid", <<MIDI, 0, 0, 0>>, F)

\* The cell loop of Arp::render_ui, from column c of the page on.
RECURSIVE RenderCells(_, _, _)
RenderCells(m, c, F) ==
    IF c >= 8 \/ m.st # "ok" THEN m
    ELSE LET col == m.arp.buffer[(m.arp.buffer_index * 8) + c]
         IN  IF col.val > 0
             THEN RenderCells(WriteQ(m, "grid", <<NOTE, col.note, 127, 0>>, F),
                              c + 1, F)
             ELSE RenderCells(m, c + 1, F)

\* A repaint that draws the tracker without asking whether it is on the page.
render_ui_NoRange(m, F) ==
    LET m1 == clear_board(m, F)
        m2 == WriteQ(m1, "grid", m.arp.buffer_btn, F)
        m3 == WriteQ(m2, "grid", m.arp.pp_btn, F)
        m4 == WriteQ(m3, "grid", m.arp.scale_btn, F)
        m5 == WriteQ(m4, "grid", m.arp.octave_btn, F)
        m6 == WriteQ(m5, "grid", m.arp.tracker.btn, F)
    IN  RenderCells(m6, 0, F)

\* A repaint that moves the tracker LED on after drawing it.
render_ui_Moving(m, F) ==
    LET m1 == clear_board(m, F)
        m2 == WriteQ(m1, "grid", m.arp.buffer_btn, F)
        m3 == WriteQ(m2, "grid", m.arp.pp_btn, F)
        m4 == WriteQ(m3, "grid", m.arp.scale_btn, F)
        m5 == WriteQ(m4, "grid", m.arp.octave_btn, F)
        m6 == IF in_range(m.arp.tracker, m.arp.buffer_index)
              THEN WriteQ(m5, "grid", m.arp.tracker.btn, F)
              ELSE m5
        m7 == Set(m6, [m6.arp EXCEPT !.tracker = move_right(@)])
    IN  RenderCells(m7, 0, F)

\* Arp::render_ui
render_ui(m, F) ==
    LET m1 == clear_board(m, F)
        m2 == WriteQ(m1, "grid", m.arp.buffer_btn, F)
        m3 == WriteQ(m2, "grid", m.arp.pp_btn, F)
        m4 == WriteQ(m3, "grid", m.arp.scale_btn, F)
        m5 == WriteQ(m4, "grid", m.arp.octave_btn, F)
        m6 == IF in_range(m.arp.tracker, m.arp.buffer_index)
              THEN WriteQ(m5, "grid", m.arp.tracker.btn, F)
              ELSE m5
    IN  RenderCells(m6, 0, F)

\* Arp::play
play(m, F) ==
    IF ~m.arp.playing
    THEN LET m1 == Set(m, [m.arp EXCEPT !.playing = TRUE])
             m2 == DeviceWrite(m1, "grid", <<176, 108, 0, 0>>, F)
             m3 == Set(m2, [m2.arp EXCEPT !.pp_btn[2] = 109,
                                          !.pp_btn[3] = led_color(0, 3)])
         IN  WriteQ(m3, "grid", m3.arp.pp_btn, F)
    ELSE m

\* Arp::pause
pause(m, F) ==
    IF m.arp.playing
    THEN LET m1 == Set(m, [m.arp EXCEPT !.playing = FALSE])
             m2 == DeviceWrite(m1, "grid", <<176, 109, 0, 0>>, F)
             m3 == Set(m2, [m2.arp EXCEPT !.pp_btn[2] = 108,
                                          !.pp_btn[3] = led_color(3, 0)])
         IN  WriteQ(m3, "grid", m3.arp.pp_btn, F)
    ELSE m

\* Arp::invert_scale
invert_scale(m, F) ==
    LET a  == IF m.arp.scale = "Major"
              THEN [m.arp EXCEPT !.scale = "Minor",
                                 !.scale_btn[3] = led_color(3, 1)]
              ELSE [m.arp EXCEPT !.scale = "Major",
                                 !.scale_btn[3] = led_color(1, 3)]
        m1 == Set(m, a)
    IN  WriteQ(m1, "grid", m1.arp.scale_btn, F)

\* Arp::top_row_dispatch
top_row_dispatch(m, note, F) ==
    IF note < PAGE_BASE THEN m
    ELSE LET idx == note - PAGE_BASE
         IN  CASE idx \in 0..3 ->
                    IF idx # m.arp.buffer_index
                    THEN render_ui(Set(m, [m.arp EXCEPT !.buffer_index = idx,
                                                        !.buffer_btn[2] = note]), F)
                    ELSE m
               [] idx = 4 -> pause(m, F)
               [] idx = 5 -> play(m, F)
               [] idx = 6 -> invert_scale(m, F)
               [] idx = 7 -> quit(m)
               [] OTHER   -> m

\* A grid handler that lights the new LED before it turns the old one off.
grid_button_dispatch_OnFirst(m, note, F) ==
    LET xy == find_lp_xy(note)
    IN  IF ~xy.some THEN m
        ELSE IF xy.x = 8
        THEN LET m1 == WriteQ(m, "grid", <<NOTE, m.arp.octave_btn[2], 0, 0>>, F)
                 o  == U8(7 - xy.y, m.debug)
                 m2 == IF o.ok
                       THEN Set(m1, [m1.arp EXCEPT !.octave = o.v,
                                                   !.octave_btn[2] = note])
                       ELSE Panic(m1)
             IN  WriteQ(m2, "grid", m2.arp.octave_btn, F)
        ELSE LET offset  == (m.arp.buffer_index * 8) + xy.x
                 nv      == U8(7 - xy.y, m.debug)
                 new_val == nv.v
                 column  == m.arp.buffer[offset]
             IN  IF ~nv.ok THEN Panic(m)
                 ELSE IF column.val # new_val
                 THEN LET m1 == IF new_val # 0
                                THEN WriteQ(m, "grid", <<NOTE, note, 127, 0>>, F)
                                ELSE m
                          m2 == IF column.val # 0
                                THEN WriteQ(m1, "grid", <<NOTE, column.note, 0, 0>>, F)
                                ELSE m1
                      IN  Set(m2, [m2.arp EXCEPT
                                     !.buffer[offset] = [val |-> new_val,
                                                         note |-> note]])
                 ELSE m

\* A grid handler that stores the new degree but not the pressed id.
grid_button_dispatch_StaleNote(m, note, F) ==
    LET xy == find_lp_xy(note)
    IN  IF ~xy.some THEN m
        ELSE IF xy.x = 8
        THEN LET m1 == WriteQ(m, "grid", <<NOTE, m.arp.octave_btn[2], 0, 0>>, F)
                 o  == U8(7 - xy.y, m.debug)
                 m2 == IF o.ok
                       THEN Set(m1, [m1.arp EXCEPT !.octave = o.v,
                                                   !.octave_btn[2] = note])
                       ELSE Panic(m1)
             IN  WriteQ(m2, "grid", m2.arp.octave_btn, F)
        ELSE LET offset  == (m.arp.buffer_index * 8) + xy.x
                 nv      == U8(7 - xy.y, m.debug)
                 new_val == nv.v
                 column  == m.arp.buffer[offset]
             IN  IF ~nv.ok THEN Panic(m)
                 ELSE IF column.val # new_val
                 THEN LET m1 == IF column.val # 0
                                THEN WriteQ(m, "grid", <<NOTE, column.note, 0, 0>>, F)
                                ELSE m
                          m2 == IF new_val # 0
                                THEN WriteQ(m1, "grid", <<NOTE, note, 127, 0>>, F)
                                ELSE m1
                      IN  Set(m2, [m2.arp EXCEPT !.buffer[offset].val = new_val])
                 ELSE m

\* Arp::grid_button_dispatch; 7 - y is a u8 subtraction.
grid_button_dispatch(m, note, F) ==
    LET xy == find_lp_xy(note)
    IN  IF ~xy.some THEN m
        ELSE IF xy.x = 8
        THEN LET m1 == WriteQ(m, "grid", <<NOTE, m.arp.octave_btn[2], 0, 0>>, F)
                 o  == U8(7 - xy.y, m.debug)
                 m2 == IF o.ok
                       THEN Set(m1, [m1.arp EXCEPT !.octave = o.v,
                                                   !.octave_btn[2] = note])
                       ELSE Panic(m1)
             IN  WriteQ(m2, "grid", m2.arp.octave_btn, F)
        ELSE LET offset  == (m.arp.buffer_index * 8) + xy.x
                 nv      == U8(7 - xy.y, m.debug)
                 new_val == nv.v
                 column  == m.arp.buffer[offset]
             IN  IF ~nv.ok THEN Panic(m)
                 ELSE IF column.val # new_val
                 THEN LET m1 == IF column.val # 0
                                THEN WriteQ(m, "grid", <<NOTE, column.note, 0, 0>>, F)
                                ELSE m
                          m2 == IF new_val # 0
                                THEN WriteQ(m1, "grid", <<NOTE, note, 127, 0>>, F)
                                ELSE m1
                      IN  Set(m2, [m2.arp EXCEPT
                                     !.buffer[offset] = [val |-> new_val,
                                                         note |-> note]])
                 ELSE m

\* Arp::update_state
update_state(m, F) ==
    LET i  == m.arp.index + 1
        m1 == IF m.arp.playing
              THEN Set(m, [m.arp EXCEPT !.index = IF i = NCOLS THEN 0 ELSE i])
              ELSE m
        m2 == WriteQ(m1, "grid", <<NOTE, m1.arp.tracker.btn[2], 0, 0>>, F)
        m3 == Set(m2, [m2.arp EXCEPT
                         !.tracker = move_right(tracker_update(m2.arp.tracker))])
    IN  IF in_range(m3.arp.tracker, m3.arp.buffer_index)
        THEN WriteQ(m3, "grid", m3.arp.tracker.btn, F)
        ELSE m3

\* Arp::flush_notes
flush_notes(m, F) ==
    LET col  == m.arp.buffer[m.arp.index]
        base == calc_note(col.val, m.arp.scale)
        n    == U8(base.v + (m.arp.octave * 12), m.debug)
    IN  IF col.val > 0 /\ base.some
        THEN IF base.oob \/ ~n.ok THEN Panic(m)
             ELSE WriteQ(m, "midi", <<NOTE, n.v, 127, 1>>, F)
        ELSE m

\* The event loop of Arp::check_inputs over the events still to come.
RECURSIVE InputLoop(_, _, _)
InputLoop(m, evts, F) ==
    IF evts = <<>> \/ m.st # "ok" THEN m
    ELSE LET e == Head(evts)
         IN  IF e.vel = 0 THEN m
             ELSE LET m0 == [m EXCEPT !.disp = Append(@, e)]
                      m1 == CASE e.status = MIDI -> top_row_dispatch(m0, e.note, F)
                              [] e.status = NOTE -> grid_button_dispatch(m0, e.note, F)
                              [] OTHER           -> m0
                  IN  InputLoop(m1, Tail(evts), F)

\* Arp::check_inputs; r is what read_n returned: an Err, Ok(None) or
\* Ok(Some(evts)).
check_inputs(m, r, F) ==
    IF r.kind = "Some" THEN InputLoop(m, r.evts, F) ELSE m

----------------------------------------------------------------------------
\* The environment: input events, read results, transport faults.

Ev(s, n, v) == [status |-> s, note |-> n, vel |-> v]

\* The input events tried: the control row (page 0, page 1, pause, play,
\* scale, quit), three rows of grid column 1, an octave button, a release and
\* a press of intermediate velocity.
Events ==
    { Ev(MIDI, 104, 127), Ev(MIDI, 105, 127), Ev(MIDI, 108, 127),
      Ev(MIDI, 109, 127), Ev(MIDI, 110, 127), Ev(MIDI, 111, 127),
      Ev(NOTE, 81, 127), Ev(NOTE, 17, 127), Ev(NOTE, 113, 127),
      Ev(NOTE, 40, 127), Ev(NOTE, 81, 0), Ev(NOTE, 17, 64) }

\* The events tried in bursts: a release, a press and quit.
BurstEvents ==
    { Ev(NOTE, 81, 0), Ev(NOTE, 17, 127), Ev(MIDI, 111, 127) }

RECURSIVE SeqsUpTo(_, _)
SeqsUpTo(S, n) ==
    IF n = 0 THEN {<<>>}
    ELSE LET T == SeqsUpTo(S, n - 1)
         IN  T \cup {Append(t, e) : t \in {u \in T : Len(u) = n - 1}, e \in S}

NoRead == [kind |-> "-", evts |-> <<>>]

\* What read_n(1024) can return.
Reads ==
    {[kind |-> "Err", evts |-> <<>>], [kind |-> "None", evts |-> <<>>]}
    \cup {[kind |-> "Some", evts |-> <<e>>] : e \in Events}
    \cup {[kind |-> "Some", evts |-> b] :
             b \in {t \in SeqsUpTo(BurstEvents, MaxBurst) : Len(t) >= 2}}

NoFault == [at |-> 0, sticky |-> FALSE]

Faults ==
    {NoFault} \cup {[at |-> k, sticky |-> b] : k \in 1..MaxFailAt, b \in BOOLEAN}

\* With input ids in 0..127 and an octave in 0..7 no u8 expression of the
\* handlers leaves 0..255, and the two builds behave alike: one is tried.
AnyBuild == {TRUE}

Machine(a, debug) ==
    [arp |-> a, out |-> <<>>, disp |-> <<>>, st |-> "ok", debug |-> debug]

----------------------------------------------------------------------------
\* main and Arp::run.

\* main up to the call of run: set_rate(120, 64) and the three interval calls.
MainScheduler ==
    interval(interval(interval(set_rate(SchedulerNew, 120, 64, TRUE).s,
        4, "CheckInputs"), 32, "UpdateState"), 32, "FlushNotes")

Init ==
    /\ arp = ArpNew
    /\ scheduler = MainScheduler
    /\ pc = "start"
    /\ qi = 0
    /\ out = <<>>
    /\ rd = NoRead
    /\ dispatched = <<>>
    /\ order = <<>>
    /\ pushed = <<>>
    /\ late = FALSE
    /\ rate = [set |-> TRUE, bpm |-> 120, num_ticks |-> 64]
    /\ nticks = 0

\* main: arp.clear_board()?; arp.render_ui()?; then run.
Startup(Fs) ==
    /\ pc = "start"
    /\ \E F \in Fs :
         LET m == render_ui(clear_board(Machine(arp, TRUE), F), F)
         IN  /\ arp' = m.arp
             /\ out' = m.out
             /\ pc' = IF m.st = "ok" THEN "update" ELSE "failed"
    /\ UNCHANGED <<scheduler, qi, rd, dispatched, order, pushed, late, rate, nticks>>

\* A match that does not look at playing.
Dispatch_Ungated(m, msg, r, F) ==
    CASE msg = "Quit"        -> quit(m)
      [] msg = "CheckInputs" -> check_inputs(m, r, F)
      [] msg = "UpdateState" -> update_state(m, F)
      [] msg = "FlushNotes"  -> flush_notes(m, F)
      [] OTHER               -> m

\* The match of Arp::update on (queue[i], playing).
Dispatch(m, msg, r, F) ==
    CASE msg = "Quit"                          -> quit(m)
      [] msg = "CheckInputs"                   -> check_inputs(m, r, F)
      [] msg = "UpdateState" /\ m.arp.playing  -> update_state(m, F)
      [] msg = "FlushNotes" /\ m.arp.playing   -> flush_notes(m, F)
      [] OTHER                                 -> m

\* Arp::update with no events waiting: returns Ok at once.
Idle ==
    /\ pc = "update"
    /\ ~has_events(scheduler)
    /\ pc' = "tick"
    /\ out' = <<>>
    /\ rd' = NoRead
    /\ dispatched' = <<>>
    /\ order' = <<>>
    /\ UNCHANGED <<arp, scheduler, qi, pushed, late, rate, nticks>>

\* One turn of the while loop of Arp::update, on queue[i]; after the last
\* one the queue is cleared and update returns; an Err leaves run and main,
\* and so does a panic. Builds is the set of builds tried (with overflow
\* checks or without).
Handle(Rds, Fs, Builds) ==
    /\ pc = "update"
    /\ has_events(scheduler)
    /\ LET msg == scheduler.queue[qi + 1]
       IN  \E F \in Fs, debug \in Builds :
           \E r \in (IF msg = "CheckInputs" THEN Rds ELSE {NoRead}) :
             LET m == Dispatch(Machine(arp, debug), msg, r, F)
                 last == (qi + 1 = Len(scheduler.queue))
             IN  /\ arp' = m.arp
                 /\ out' = m.out
                 /\ rd' = r
                 /\ dispatched' = m.disp
                 /\ order' = Append(order, msg)
                 /\ pc' = CASE m.st = "fault" -> "failed"
                            [] m.st = "panic" -> "panicked"
                            [] OTHER -> IF last THEN "tick" ELSE "update"
                 /\ qi' = IF m.st = "ok" /\ ~last THEN qi + 1 ELSE 0
                 /\ scheduler' = IF m.st = "ok" /\ last
                                 THEN clear_queue(scheduler) ELSE scheduler
    /\ UNCHANGED <<pushed, late, rate, nticks>>

\* self.scheduler.update() in Arp::run, then the test of the while loop.
Tick(bound) ==
    /\ pc = "tick"
    /\ nticks < bound
    /\ \E elapsed \in ElapsedInputs(scheduler) :
         LET u == SchedulerUpdate(scheduler, elapsed, nticks + 1)
         IN  /\ scheduler' = u.s
             /\ late' = (~scheduler.tick_duration.max
                          /\ elapsed > scheduler.tick_duration.micros)
             /\ pushed' = pushed \o SubSeq(u.s.queue, Len(scheduler.queue) + 1,
                                           Len(u.s.queue))
             /\ pc' = CASE u.st = "panic"  -> "panicked"
                        [] u.st = "asleep" -> "asleep"
                        [] OTHER -> IF arp.running THEN "update" ELSE "exit"
    /\ nticks' = nticks + 1
    /\ out' = <<>>
    /\ rd' = NoRead
    /\ dispatched' = <<>>
    /\ order' = <<>>
    /\ UNCHANGED <<arp, qi, rate>>

\* main after run has returned Ok: arp.clear_board()?
Shutdown(Fs) ==
    /\ pc = "exit"
    /\ \E F \in Fs :
         LET m == clear_board(Machine(arp, TRUE), F)
         IN  /\ out' = m.out
             /\ pc' = IF m.st = "ok" THEN "done" ELSE "failed"
    /\ UNCHANGED <<arp, scheduler, qi, rd, dispatched, order, pushed, late, rate,
                   nticks>>

Next ==
    \/ Startup(Faults)
    \/ Idle
    \/ Handle(Reads, Faults, AnyBuild)
    \/ Tick(MaxTicks)
    \/ Shutdown(Faults)

Spec == Init /\ [][Next]_vars

----------------------------------------------------------------------------
\* The same loop under other configurations of the scheduler, with a device
\* that only sends play, pause and quit presses and a transport without faults.

QuietReads ==
    {[kind |-> "None", evts |-> <<>>]}
    \cup {[kind |-> "Some", evts |-> <<e>>] :
             e \in {Ev(MIDI, 109, 127), Ev(MIDI, 108, 127), Ev(MIDI, 111, 127)}}

InitSetup(s) ==
    /\ arp = ArpNew
    /\ scheduler = s
    /\ pc = "setup"
    /\ qi = 0
    /\ out = <<>>
    /\ rd = NoRead
    /\ dispatched = <<>>
    /\ order = <<>>
    /\ pushed = <<>>
    /\ late = FALSE
    /\ nticks = 0

\* A call of Scheduler::interval.
Register ==
    /\ pc = "setup"
    /\ Len(scheduler.jobs) < MaxJobs
    /\ \E tick_amt \in 1..MaxPeriod, msg \in Msg :
         scheduler' = interval(scheduler, tick_amt, msg)
    /\ UNCHANGED <<arp, pc, qi, out, rd, dispatched, order, pushed, late, rate,
                   nticks>>

\* The configuration is complete: main goes on to clear_board and render_ui.
Configured ==
    /\ pc = "setup"
    /\ pc' = "start"
    /\ UNCHANGED <<arp, scheduler, qi, out, rd, dispatched, order, pushed, late,
                   rate, nticks>>

\* Any registration, at the rate main sets.
InitSched ==
    /\ InitSetup(set_rate(SchedulerNew, 120, 64, TRUE).s)
    /\ rate = [set |-> TRUE, bpm |-> 120, num_ticks |-> 64]

NextSched ==
    \/ Register
    \/ Configured
    \/ Startup({NoFault})
    \/ Idle
    \/ Handle(QuietReads, {NoFault}, AnyBuild)
    \/ Tick(SchedTicks)
    \/ Shutdown({NoFault})

SpecSched == InitSched /\ [][NextSched]_vars

\* The arguments tried for set_rate.
RateInputs == {-1, 0, 1, 64, 120, 65536, 65537}

NoRate == [set |-> FALSE, bpm |-> 0, num_ticks |-> 0]

\* A call of Scheduler::set_rate followed by the interval calls of main.
SetRate ==
    /\ pc = "setup"
    /\ \E bpm \in RateInputs, num_ticks \in RateInputs, debug \in BOOLEAN :
         LET r == set_rate(scheduler, bpm, num_ticks, debug)
         IN  /\ scheduler' =
                    interval(interval(interval(r.s, 4, "CheckInputs"),
                                      32, "UpdateState"), 32, "FlushNotes")
             /\ rate' = [set |-> TRUE, bpm |-> bpm, num_ticks |-> num_ticks]
             /\ pc' = IF r.st = "panic" THEN "panicked" ELSE "start"
    /\ UNCHANGED <<arp, qi, out, rd, dispatched, order, pushed, late, nticks>>

\* Any rate, with the registration of main.
InitRate ==
    /\ InitSetup(SchedulerNew)
    /\ rate = NoRate

NextRate ==
    \/ SetRate
    \/ Startup({NoFault})
    \/ Idle
    \/ Handle(QuietReads, {NoFault}, AnyBuild)
    \/ Tick(RateTicks)
    \/ Shutdown({NoFault})

SpecRate == InitRate /\ [][NextRate]_vars

----------------------------------------------------------------------------
\* main with a device that sends what the sequencer needs: play, scale and
\* quit presses, the eight rows of grid column 1 (the column under the
\* playhead when FlushNotes first comes due) and two octave buttons; no
\* transport faults.

NoteReads ==
    {[kind |-> "None", evts |-> <<>>]}
    \cup {[kind |-> "Some", evts |-> <<Ev(MIDI, n, 127)>>] : n \in {109, 110, 111}}
    \cup {[kind |-> "Some", evts |-> <<Ev(NOTE, (16 * r) + 1, 127)>>] : r \in 0..7}
    \cup {[kind |-> "Some", evts |-> <<Ev(NOTE, n, 127)>>] : n \in {8, 120}}

NextNotes ==
    \/ Startup({NoFault})
    \/ Idle
    \/ Handle(NoteReads, {NoFault}, AnyBuild)
    \/ Tick(MaxTicks)
    \/ Shutdown({NoFault})

SpecNotes == Init /\ [][NextNotes]_vars

----------------------------------------------------------------------------
\* main with a device that sends one grid press of any id a byte can hold, or
\* a quit press, in either build; no transport faults.

GridIds == 0..255

GridReads ==
    {[kind |-> "None", evts |-> <<>>], [kind |-> "Some", evts |-> <<Ev(MIDI, 111, 127)>>]}
    \cup {[kind |-> "Some", evts |-> <<Ev(NOTE, n, 127)>>] : n \in GridIds}

NextGrid ==
    \/ Startup({NoFault})
    \/ Idle
    \/ Handle(GridReads, {NoFault}, BOOLEAN)
    \/ Tick(GridTicks)
    \/ Shutdown({NoFault})

SpecGrid == Init /\ [][NextGrid]_vars

----------------------------------------------------------------------------
\* Long runs of main, with a device that only sends play, pause, quit and
\* page 0 / page 1 presses, and a transport without faults.

SweepReads ==
    QuietReads
    \cup {[kind |-> "Some", evts |-> <<Ev(MIDI, n, 127)>>] : n \in {104, 105}}

NextSweep ==
    \/ Startup({NoFault})
    \/ Idle
    \/ Handle(SweepReads, {NoFault}, AnyBuild)
    \/ Tick(SweepTicks)
    \/ Shutdown({NoFault})

SpecSweep == Init /\ [][NextSweep]_vars

----------------------------------------------------------------------------
\* main with a device that sends presses of the four pages and of grid
\* columns 0 and 7 at every row, of an octave button (id 8) and of an id
\* outside the grid (id 9), and a quit press; no transport faults.

PatternIds ==
    {(16 * r) + c : r \in 0..7, c \in {0, 7}} \cup {8, 9}

PatternReads ==
    {[kind |-> "None", evts |-> <<>>], [kind |-> "Some", evts |-> <<Ev(MIDI, 111, 127)>>]}
    \cup {[kind |-> "Some", evts |-> <<Ev(MIDI, n, 127)>>] : n \in 104..107}
    \cup {[kind |-> "Some", evts |-> <<Ev(NOTE, n, 127)>>] : n \in PatternIds}

NextPattern ==
    \/ Startup({NoFault})
    \/ Idle
    \/ Handle(PatternReads, {NoFault}, AnyBuild)
    \/ Tick(PatternTicks)
    \/ Shutdown({NoFault})

SpecPattern == Init /\ [][NextPattern]_vars

----------------------------------------------------------------------------
\* Properties.

IsPress(e) == e.vel = 127

Count(seq, x) == Cardinality({i \in DOMAIN seq : seq[i] = x})

\* C1: of every batch read by one CheckInputs, the events of velocity 127 are
\* dispatched exactly once each and in arrival order; a release (velocity 0)
\* is skipped without effect on the events after it. Stated of the steps
\* that no transport fault has cut short.
C1_Claim ==
    (rd.kind = "Some" /\ pc # "failed")
        => SelectSeq(dispatched, IsPress) = SelectSeq(rd.evts, IsPress)

\* C2: a batch holding only events of a velocity other than 127 changes no
\* controller state and causes no outbound message.
C2_Claim ==
    [][(rd'.kind = "Some" /\ \A i \in DOMAIN rd'.evts : ~IsPress(rd'.evts[i]))
          => (arp' = arp /\ out' = <<>>)]_vars

\* C3: tick() never fails; a tick that finds more than tick_duration elapsed
\* does not sleep, records the new reference instant and returns.
C3_Claim ==
    /\ pc # "panicked"
    /\ late => scheduler.last_time = nticks

\* The number of times the jobs of payload msg have come due in n ticks.
RECURSIVE DueCount(_, _, _)
DueCount(jobs, msg, n) ==
    IF jobs = <<>> THEN 0
    ELSE (IF Head(jobs).msg = msg THEN n \div Head(jobs).mt ELSE 0)
         + DueCount(Tail(jobs), msg, n)

\* C4: a job of period P >= 1 registered with elapsed 0 has, after n ticks,
\* elapsed = n mod P (so within 0..P-1, and 0 after P ticks), and its payload
\* has been appended to the due queue once per P ticks: on tick P, 2P, ...
\* and on no other.
C4_Thm ==
    /\ \A k \in DOMAIN scheduler.jobs :
          /\ scheduler.jobs[k].ct = nticks % scheduler.jobs[k].mt
          /\ scheduler.jobs[k].ct \in 0..(scheduler.jobs[k].mt - 1)
    /\ \A msg \in Msg :
          Count(pushed, msg) = DueCount(scheduler.jobs, msg, nticks)

\* C4, its case: a job of period 2 after exactly 2 ticks is back at elapsed 0
\* and its payload has been appended once.
C4_Wit ==
    /\ nticks = 2
    /\ Len(scheduler.jobs) = 1
    /\ scheduler.jobs[1].mt = 2
    /\ scheduler.jobs[1].ct = 0
    /\ pushed = <<scheduler.jobs[1].msg>>

\* The payloads of the jobs that came due in the most recent tick, in the
\* order of registration (a job that came due is back at elapsed 0).
RECURSIVE Due(_)
Due(jobs) ==
    IF jobs = <<>> THEN <<>>
    ELSE (IF Head(jobs).ct = 0 THEN <<Head(jobs).msg>> ELSE <<>>) \o Due(Tail(jobs))

\* C5: on every tick the due queue holds the payloads of the jobs that fired
\* in registration order (so A before B for jobs A, B of equal period
\* registered in that order), and the drain takes them in that order.
C5_Thm ==
    (nticks >= 1) =>
        /\ (pc = "update") =>
                /\ scheduler.queue = Due(scheduler.jobs)
                /\ order = SubSeq(scheduler.queue, 1, qi)
        /\ (pc = "tick") => order = Due(scheduler.jobs)

\* C5, its case: the three payloads of the reference registration fired on
\* one tick and were handled, UpdateState having advanced the playhead.
C5_Wit ==
    /\ pc = "tick"
    /\ order = <<"CheckInputs", "UpdateState", "FlushNotes">>
    /\ scheduler.jobs[2].mt = scheduler.jobs[3].mt
    /\ arp.playing
    /\ arp.index = 1

\* The payload a drain step is about to take from the queue, if any.
Taking(msg) ==
    pc = "update" /\ has_events(scheduler) /\ scheduler.queue[qi + 1] = msg

\* C6: while playing is false no step emits a note on the MIDI output or
\* moves the playhead, the sweep position or the tracker LED id, and a due
\* UpdateState or FlushNotes changes nothing and sends nothing.
C6_Thm ==
    [][(~arp.playing) =>
          /\ \A i \in DOMAIN out' : out'[i].port # "midi"
          /\ arp'.index = arp.index
          /\ arp'.tracker = arp.tracker
          /\ (Taking("UpdateState") \/ Taking("FlushNotes"))
                => (arp' = arp /\ out' = <<>>)]_vars

\* C6, its case: CheckInputs has just handled a pause press that stopped the
\* playing (two indicator writes), with UpdateState due next in the same drain
\* and a sounding column under the playhead.
C6_Wit ==
    /\ Taking("UpdateState")
    /\ ~arp.playing
    /\ dispatched = <<Ev(MIDI, 108, 127)>>
    /\ Len(out) = 2
    /\ arp.buffer[arp.index + 1].val > 0

\* A successful LED write.
LedWrite(msg) == [port |-> "grid", msg |-> msg, ok |-> TRUE]

\* A step that read exactly the event e and ended without a transport fault.
ReadOnly(e) == rd'.kind = "Some" /\ rd'.evts = <<e>> /\ pc' # "failed"

\* C7: a press of grid column c in 0..7, row r in 0..7 on page p sets pattern
\* column p*8+c to degree 7-r with the pressed id; when the degree changes the
\* messages are an LED-off for the old id iff the old degree was nonzero, then
\* an LED-on for the pressed id iff the new degree is nonzero; when it does
\* not change nothing is sent and nothing changes. No other column changes.
C7_Thm ==
    [][\A n \in 0..127 :
         (ReadOnly(Ev(NOTE, n, 127)) /\ n % 16 \in 0..7) =>
            LET c   == (arp.buffer_index * 8) + (n % 16)
                d   == 7 - (n \div 16)
                old == arp.buffer[c]
            IN  IF old.val # d
                THEN /\ out' = (IF old.val # 0
                                THEN <<LedWrite(<<NOTE, old.note, 0, 0>>)>>
                                ELSE <<>>)
                               \o (IF d # 0
                                   THEN <<LedWrite(<<NOTE, n, 127, 0>>)>>
                                   ELSE <<>>)
                     /\ arp' = [arp EXCEPT !.buffer[c] = [val |-> d, note |-> n]]
                ELSE out' = <<>> /\ arp' = arp]_vars

\* C7, its case: a press in a column that held another nonzero degree: the
\* old LED went off, then the new one on.
C7_Wit ==
    /\ rd.kind = "Some"
    /\ rd.evts = <<Ev(NOTE, 17, 127)>>
    /\ out = <<LedWrite(<<NOTE, 81, 0, 0>>), LedWrite(<<NOTE, 17, 127, 0>>)>>
    /\ arp.buffer[1] = [val |-> 6, note |-> 17]

\* C8: a press of the control id of another page causes a repaint that
\* writes the clear message and the four indicators, then the sweep LED only
\* if the sweep position lies in the new page's window, then LED-on messages
\* only for nonzero columns of that window; a press of the control id of the
\* active page changes nothing and sends nothing.
C8_Thm ==
    [][\A idx \in 0..3 :
         ReadOnly(Ev(MIDI, PAGE_BASE + idx, 127)) =>
            IF idx = arp.buffer_index
            THEN arp' = arp /\ out' = <<>>
            ELSE LET win == (idx * 8)..((idx * 8) + 7)
                 IN  /\ arp'.buffer_index = idx
                     /\ arp'.buffer = arp.buffer /\ arp'.tracker = arp.tracker
                     /\ Len(out') >= 5
                     /\ out'[1] = LedWrite(<<MIDI, 0, 0, 0>>)
                     /\ \A i \in 6..Len(out') :
                          \/ /\ i = 6
                             /\ out'[i] = LedWrite(arp.tracker.btn)
                             /\ arp.tracker.index \in win
                          \/ \E c \in win :
                               /\ arp.buffer[c].val > 0
                               /\ out'[i] =
                                    LedWrite(<<NOTE, arp.buffer[c].note, 127, 0>>)]_vars

\* C8, its case: a switch to page 1 with the sweep in page 0 and a nonzero
\* column on page 0: the repaint is the clear message and the indicators only.
C8_Wit ==
    /\ rd.kind = "Some"
    /\ rd.evts = <<Ev(MIDI, 105, 127)>>
    /\ pc # "failed"
    /\ arp.buffer_index = 1
    /\ arp.tracker.index \in 0..7
    /\ arp.buffer[1].val > 0
    /\ Len(out) = 5

\* Whether set_rate's arguments make sense: both positive, with a product
\* within the signed 32-bit range.
SaneRate(r) ==
    r.bpm > 0 /\ r.num_ticks > 0 /\ r.bpm <= I32_MAX \div r.num_ticks

\* C9: set_rate rejects arguments that make no sense, and for the others
\* installs floor(60,000,000 / (bpm * num_ticks)) microseconds.
C9_Claim ==
    rate.set =>
        IF SaneRate(rate)
        THEN scheduler.tick_duration
                = Micros(MINUTE_US \div (rate.bpm * rate.num_ticks))
        ELSE pc = "panicked" /\ nticks = 0

\* C10: a failed write is the last write of its handler, and the fault leaves
\* the drain and the main loop.
C10_Claim ==
    \A i \in DOMAIN out : (~out[i].ok) => (i = Len(out) /\ pc = "failed")

\* C11: a CheckInputs whose read_n returned an Err ends the drain and the main
\* loop with that fault; the failed read is not taken for an empty batch.
C11_Claim == (rd.kind = "Err") => (pc = "failed")

QuitPress == Ev(MIDI, 111, 127)

\* The step just made handed a quit press to the control-row handler.
QuitDispatched == \E i \in DOMAIN dispatched : dispatched[i] = QuitPress

\* After a quit the rest of the batch is still handled: every press of the
\* batch has been dispatched (unless a transport fault ended the step).
QuitBatchHandled ==
    (QuitDispatched /\ pc # "failed")
        => SelectSeq(dispatched, IsPress) = SelectSeq(rd.evts, IsPress)

\* After a quit, running is false; the drain it was handled in is the one
\* still under way, and when that drain is over every due payload has been
\* taken and the queue is empty.
QuitDrainCompletes ==
    /\ QuitDispatched => ~arp.running
    /\ (~arp.running /\ pc = "update") => Len(order) >= 1
    /\ (~arp.running /\ pc = "tick")
          => (scheduler.queue = <<>> /\ order = Due(scheduler.jobs))

\* Once false, running stays false, and run leaves its loop after the drain
\* without another call of Arp::update.
QuitIsFinal ==
    [][(~arp.running) =>
          /\ ~arp'.running
          /\ (pc = "tick") => (pc' \in {"exit", "panicked"})
          /\ (pc \in {"exit", "done", "failed", "panicked"}) => (pc' # "update")]_vars

\* C12: once a quit is processed running is false for good; the drain it was
\* processed in completes (the remaining events of the batch and the remaining
\* due payloads are handled, the queue is cleared), and the main loop then
\* ends without another drain.
C12_Claim == [](QuitBatchHandled /\ QuitDrainCompletes) /\ QuitIsFinal

\* A successful note-on on the MIDI output.
NoteOn(n) == [port |-> "midi", msg |-> <<NOTE, n, 127, 1>>, ok |-> TRUE]

\* The degree of the column under the playhead.
DegreeAtPlayhead == arp.buffer[arp.index].val

\* C13: FlushNotes on a column of degree 4 with scale Major and octave o
\* emits a note-on for note 5 + o*12 (degree 4 under Major is offset 5).
C13_Claim ==
    [][(Taking("FlushNotes") /\ arp.playing /\ DegreeAtPlayhead = 4
           /\ arp.scale = "Major")
          => out' = <<NoteOn(5 + (arp.octave * 12))>>]_vars

\* C14: FlushNotes on a column of degree 0 or 7 emits nothing, under either
\* scale; no FlushNotes indexes the scale table outside its 7 entries, and
\* for every stored degree the index of the lookup is within 0..6.
C14_Thm ==
    /\ [](\A c \in DOMAIN arp.buffer :
            /\ arp.buffer[c].val \in 0..7
            /\ ScaleIndex(arp.buffer[c].val).some
                  => ScaleIndex(arp.buffer[c].val).i \in 0..6)
    /\ [][Taking("FlushNotes") =>
            /\ pc' # "panicked"
            /\ (arp.playing /\ DegreeAtPlayhead \in {0, 7})
                  => (out' = <<>> /\ arp' = arp)]_vars

\* C14, its case: FlushNotes has just run, playing, on a column of degree 7
\* under the Minor scale, and wrote nothing.
C14_Wit ==
    /\ pc = "tick"
    /\ Len(order) = 3 /\ order[3] = "FlushNotes"
    /\ arp.playing
    /\ arp.scale = "Minor"
    /\ arp.buffer[arp.index] = [val |-> 7, note |-> 1]
    /\ out = <<>>

\* The step read exactly one press of grid id n.
ReadPress(n) == rd'.kind = "Some" /\ rd'.evts = <<Ev(NOTE, n, 127)>>

\* C15: the decode yields a (column, row) pair only with column in 0..8 and
\* row in 0..7; an id above 127, such as 200, decodes to out of range, so the
\* press is ignored and the handler never computes 7 - row for a row above 7.
C15_Claim ==
    [][\A n \in GridIds :
         ReadPress(n) =>
            /\ find_lp_xy(n).some
                  => (find_lp_xy(n).x \in 0..8 /\ find_lp_xy(n).y \in 0..7)
            /\ (n > 127) => (~find_lp_xy(n).some /\ arp' = arp /\ out' = <<>>)
            /\ pc' # "panicked"]_vars

Repaint == render_ui(Machine(arp, TRUE), NoFault)

\* The step just made was a full repaint that ran to its end: the one of
\* startup (after the clear_board of main), or the one of a page switch.
StartupRepaint == pc = "update" /\ nticks = 0 /\ out # <<>>
PageRepaint ==
    /\ rd.kind = "Some" /\ Len(rd.evts) = 1 /\ pc # "failed"
    /\ rd.evts[1].status = MIDI /\ rd.evts[1].note \in 104..107
    /\ rd.evts[1].vel = 127 /\ out # <<>>

\* The messages of a full repaint of controller state a.
RECURSIVE CellWrites(_, _)
CellWrites(a, c) ==
    IF c >= 8 THEN <<>>
    ELSE (IF a.buffer[(a.buffer_index * 8) + c].val > 0
          THEN <<LedWrite(<<NOTE, a.buffer[(a.buffer_index * 8) + c].note, 127, 0>>)>>
          ELSE <<>>) \o CellWrites(a, c + 1)

RepaintWrites(a) ==
    <<LedWrite(<<MIDI, 0, 0, 0>>), LedWrite(a.buffer_btn), LedWrite(a.pp_btn),
      LedWrite(a.scale_btn), LedWrite(a.octave_btn)>>
    \o (IF a.tracker.index \in (a.buffer_index * 8)..((a.buffer_index * 8) + 7)
        THEN <<LedWrite(a.tracker.btn)>> ELSE <<>>)
    \o CellWrites(a, 0)

\* C17: a full repaint made right after a full repaint, with no state change
\* in between, writes the same messages (clear, the page, play/pause, scale
\* and octave indicators, the sweep LED if visible, the nonzero cells of the
\* page) and leaves the controller state as it was.
C17_Thm ==
    /\ Repaint.st = "ok"
    /\ Repaint.arp = arp
    /\ Repaint.out = RepaintWrites(arp)
    /\ render_ui(Machine(Repaint.arp, TRUE), NoFault).out = Repaint.out
    /\ StartupRepaint => out = <<LedWrite(<<MIDI, 0, 0, 0>>)>> \o Repaint.out
    /\ PageRepaint => out = Repaint.out

\* C17, its case: the repaint of a switch back to page 0 has drawn the sweep
\* LED and one cell after the clear message and the four indicators.
C17_Wit ==
    /\ PageRepaint
    /\ arp.buffer_index = 0
    /\ arp.buffer[1].val > 0
    /\ Len(out) = 7

\* C18: when an LED write of the grid-cell handler or of the octave handler
\* faults, the new degree and source id (the new octave and indicator id)
\* are already stored when the fault is returned.
C18_Claim ==
    [][\A n \in 0..127 :
         (ReadPress(n) /\ pc' = "failed" /\ n % 16 \in 0..8) =>
            IF n % 16 = 8
            THEN arp'.octave = 7 - (n \div 16) /\ arp'.octave_btn[2] = n
            ELSE arp'.buffer[(arp.buffer_index * 8) + (n % 16)]
                    = [val |-> 7 - (n \div 16), note |-> n]]_vars

\* C19: between the end of a drain and the job loop of the next tick the due
\* queue is empty; a tick puts into the queue the payloads it found due and
\* nothing else, and the drain that follows takes each of them once, so none
\* is carried over to a later tick or taken again. Stated of the drains that
\* no transport fault has cut short.
C19_Thm ==
    /\ [](/\ (pc \in {"tick", "exit", "done"}) => scheduler.queue = <<>>
          /\ (pc = "tick" /\ nticks >= 1) => order = Due(scheduler.jobs)
          /\ (pc = "update") => order = SubSeq(scheduler.queue, 1, qi))
    /\ [][(nticks' # nticks) =>
            /\ scheduler.queue = <<>>
            /\ pushed' = pushed \o scheduler'.queue
            /\ (pc' = "update") => (qi' = 0 /\ order' = <<>>)]_vars

\* C19, its case: the drain after tick 32 has taken the three payloads of
\* that tick, UpdateState and FlushNotes not gated, and the queue is empty.
C19_Wit ==
    /\ pc = "tick"
    /\ nticks = 32
    /\ arp.playing
    /\ order = <<"CheckInputs", "UpdateState", "FlushNotes">>
    /\ scheduler.queue = <<>>
    /\ Len(pushed) = 10

\* C20: the octave indicator id always lies in grid column 8, at the row r
\* with octave = 7 - r, from the initial state on, and octave is in 0..7.
C20_Claim ==
    LET d == find_lp_xy(arp.octave_btn[2])
    IN  /\ d.some
        /\ d.x = 8
        /\ arp.octave = 7 - d.y
        /\ arp.octave \in 0..7

\* C21: the playhead index equals the tracker's index and both are in 0..31;
\* the tracker LED id is 112 + (tracker index mod 8), so within 112..119;
\* and each UpdateState while playing advances both by exactly 1 modulo 32.
C21_Thm ==
    /\ [](/\ arp.index = arp.tracker.index
          /\ arp.index \in 0..31
          /\ arp.tracker.btn[2] = 112 + (arp.tracker.index % 8)
          /\ arp.tracker.btn[2] \in 112..119)
    /\ [][(Taking("UpdateState") /\ arp.playing) =>
            /\ arp'.index = (arp.index + 1) % 32
            /\ arp'.tracker.index = (arp.tracker.index + 1) % 32]_vars

\* C21, its case: the 32nd UpdateState has just brought the playhead and the
\* tracker from column 31 back to column 0, and the tracker LED back to 112.
C21_Wit ==
    /\ nticks = 1024
    /\ Len(order) >= 2 /\ order[2] = "UpdateState"
    /\ arp.playing
    /\ arp.index = 0
    /\ arp.tracker.index = 0
    /\ arp.tracker.btn[2] = 112
    /\ out = <<LedWrite(<<NOTE, 119, 0, 0>>), LedWrite(<<NOTE, 112, 127, 0>>)>>

\* C22: every pattern column i in 0..31 has a degree d in 0..7, and when d is
\* nonzero its stored source id n has n mod 16 = i mod 8 and n div 16 = 7 - d;
\* so a full repaint lights, for a nonzero column of the page, the cell of
\* the column's own grid column at the row of its degree.
C22_Thm ==
    /\ \A i \in 0..(NCOLS - 1) :
          /\ arp.buffer[i].val \in 0..7
          /\ (arp.buffer[i].val # 0)
                => /\ arp.buffer[i].note % 16 = i % 8
                   /\ arp.buffer[i].note \div 16 = 7 - arp.buffer[i].val
    /\ \A c \in 0..7 :
          LET i == (arp.buffer_index * 8) + c
          IN  (arp.buffer[i].val # 0)
                 => \E k \in DOMAIN Repaint.out :
                       Repaint.out[k] =
                          LedWrite(<<NOTE, (16 * (7 - arp.buffer[i].val)) + c, 127, 0>>)

\* C22, its case: after a press on page 0, a switch to page 1, a press there
\* and a switch back, column 0 holds degree 7 from id 0 and column 15 holds
\* degree 4 from id 55.
C22_Wit ==
    /\ arp.buffer_index = 0
    /\ arp.buffer[0] = [val |-> 7, note |-> 0]
    /\ arp.buffer[15] = [val |-> 4, note |-> 55]
    /\ rd.kind = "Some"
    /\ rd.evts = <<Ev(MIDI, 104, 127)>>

====
